---- MODULE Spec2Model ----
(***************************************************************************)
(* Model of the two Conan recipes of this repository:                      *)
(*   recipes/gdk-pixbuf/all/conanfile.py  (class LibnameConan)             *)
(*   recipes/libiconv/all/conanfile.py    (class LibiconvConan)            *)
(* One run of a recipe is a walk through its stage methods, called by the  *)
(* host package manager in a fixed order.  A method that raises ends the   *)
(* run: err records the exception and no later stage is called.            *)
(***************************************************************************)
EXTENDS Integers, Sequences, FiniteSets, TLC

VARIABLES
    recipe,          \* which conanfile is being run
    version,         \* self.version, a sequence of numbers
    settings,        \* self.settings: os, arch, compiler, compiler_version, sub-settings
    build_machine,   \* the machine that builds: its os, and whether a build profile exists
    patches,         \* number of conan_data["patches"][version] entries
    user_options,    \* the option values the run was started with
    options,         \* self.options: a function from the live option names to values
    requires,        \* declared with self.requires
    build_requires,  \* declared with self.build_requires
    pc,              \* the stage the host runtime calls next
    err,             \* "none", or the exception that ended the run
    source_tree,     \* file -> set of text fragments of the fetched source
    applied,         \* per source edit: how many times it was applied
    patched,         \* number of tools.patch calls made
    build_folder,    \* the generated files of the build folder
    installed,       \* the files the external install step wrote
    package_folder,  \* the files of the package folder
    env,             \* os.environ
    cwd,             \* the working directory
    tool_env,        \* os.environ as the last external tool saw it
    tool_cwd,        \* the working directory the last external tool ran in
    defs,            \* the definitions last passed to meson.configure
    autotools,       \* self._autotools of the libiconv recipe
    cpp_info,        \* what package_info published
    prev             \* the dependency declaration of the previous run

vars == <<recipe, version, settings, build_machine, patches, user_options, options,
          requires, build_requires, pc, err, source_tree, applied, patched,
          build_folder, installed, package_folder, env, cwd, tool_env, tool_cwd,
          defs, autotools, cpp_info, prev>>

\* Bound of the model: the most patch entries conan_data lists for a version.
MaxPatches == 1

GDK == "gdk-pixbuf"
ICONV == "libiconv"

----------------------------------------------------------------------------
\* Options

\* gdk-pixbuf conanfile.py 21-29: the declared option domains.
gdk_options ==
    [shared |-> {"True", "False"},
     fPIC |-> {"True", "False"},
     with_libpng |-> {"True", "False"},
     with_libtiff |-> {"True", "False"},
     with_libjpeg |-> {"libjpeg", "libjpeg-turbo", "False"},
     with_jasper |-> {"True", "False"},
     with_introspection |-> {"True", "False"}]

\* libiconv conanfile.py 18-21: the declared option domains.
iconv_options ==
    [shared |-> {"True", "False"},
     fPIC |-> {"True", "False"}]

\* The truth value of an option as the recipes' `if self.options.x` reads it:
\* an option holds a string, false for the spellings of false.
Truthy(v) == v \notin {"False", "false", "None", "none", "0", "off", ""}

\* `del self.options.name`: the option leaves the option set; deleting an
\* option that is already gone changes nothing.
DelOption(o, name) == [k \in (DOMAIN o) \ {name} |-> o[k]]

\* self.options.get_safe(name): the value, or None for a deleted option.
get_safe(o, name) == IF name \in DOMAIN o THEN o[name] ELSE "None"

\* `del self.settings.compiler.libcxx; del self.settings.compiler.cppstd`
DelCompilerSubsettings(s) == [s EXCEPT !.sub = @ \ {"libcxx", "cppstd"}]

\* tools.Version(a) >= b on three-component versions.
VersionGE(a, b) ==
    \/ a[1] > b[1]
    \/ a[1] = b[1] /\ a[2] > b[2]
    \/ a[1] = b[1] /\ a[2] = b[2] /\ a[3] >= b[3]

V2_42_0 == <<2, 42, 0>>
V2_42_6 == <<2, 42, 6>>

----------------------------------------------------------------------------
\* Stage order of the host runtime

Stages == <<"config_options", "configure", "requirements", "build_requirements",
            "source", "build", "package", "package_info", "done">>

StageIndex(s) == CHOOSE i \in 1..Len(Stages) : Stages[i] = s

\* The stage the host runtime calls after stage s has returned.
StageAfter(s) == Stages[StageIndex(s) + 1]

\* Stage s has returned normally.
Completed(s) == StageIndex(pc) > StageIndex(s)

\* Stage s was called and raised.
Raised(s) == pc = s /\ err # "none"

Running(r, s) == recipe = r /\ pc = s /\ err = "none"

----------------------------------------------------------------------------
\* Environment and working directory

EnvNames == {"CC", "CXX", "LD", "STRIP", "AR", "RANLIB", "NM", "win32_target",
             "RC", "WINDRES", "LD_LIBRARY_PATH", "CONAN_BASH_PATH", "VSINSTALLDIR"}

\* An environment value is a tuple of words; the empty tuple is "not set".
Unset == <<>>

\* os.environ.get(name, default)
environ_get(e, name, default) == IF e[name] = Unset THEN default ELSE e[name]

\* tools.environment_append(env_vars): os.environ inside the scope.
environment_append(e, env_vars) ==
    [k \in EnvNames |-> IF k \in DOMAIN env_vars THEN env_vars[k] ELSE e[k]]

\* Update of a Python dict: d[k] = v.
Put(d, k, v) == [x \in (DOMAIN d) \cup {k} |-> IF x = k THEN v ELSE d[x]]

EmptyDict == [x \in {} |-> Unset]


\* The `finally` of a `with` scope (tools.environment_append, tools.chdir,
\* tools.vcvars): the saved value comes back whether the body raised or not.
scope_exit_no_finally(saved, inside, raised) == IF raised THEN inside ELSE saved

scope_exit(saved, inside, raised) == saved

----------------------------------------------------------------------------
\* Files of the package folder: a directory (a sequence of names) and a base
\* name split at its dots, <<"iconv", "dll", "lib">> for iconv.dll.lib.

File(dir, base) == [dir |-> dir, base |-> base]

\* os.path.join(folder, ...) names a directory that holds p, at any depth.
InDir(p, d) == Len(p.dir) >= Len(d) /\ SubSeq(p.dir, 1, Len(d)) = d

\* fnmatch(name, "*.<ext>")
MatchesMask(p, ext) == Len(p.base) >= 2 /\ p.base[Len(p.base)] = ext

\* tools.rmdir(path): the directory and all it holds are gone.
rmdir(fs, d) == {p \in fs : ~InDir(p, d)}

\* tools.remove_files_by_mask(directory, "*.<ext>"): walks the directory tree.
remove_files_by_mask(fs, d, ext) == {p \in fs : ~(InDir(p, d) /\ MatchesMask(p, ext))}

\* os.rename / conan.tools.files.rename of a file that exists.
rename(fs, src, dst) == (fs \ {src}) \cup {dst}

----------------------------------------------------------------------------
\* Source tree and source edits

\* An edit is tools.replace_in_file(file, search, replace).
Edit(file, search, replace) == [file |-> file, search |-> search, replace |-> replace]

EditId(e) == <<e.file, e.search>>

Found(tree, e) == e.search \in tree[e.file]

Replaced(tree, e) ==
    [tree EXCEPT ![e.file] = (@ \ {e.search}) \cup {e.replace}]

\* A replace_in_file that tolerates a missing search text (strict=False).
replace_in_file_lenient(tree, e) ==
    IF Found(tree, e)
    THEN [tree |-> Replaced(tree, e), changed |-> TRUE, raised |-> FALSE]
    ELSE [tree |-> tree, changed |-> FALSE, raised |-> FALSE]

\* tools.replace_in_file(file, search, replace), called with its default
\* strict=True: it raises when the search text is not in the file.
replace_in_file(tree, e) ==
    IF Found(tree, e)
    THEN [tree |-> Replaced(tree, e), changed |-> TRUE, raised |-> FALSE]
    ELSE [tree |-> tree, changed |-> FALSE, raised |-> TRUE]

\* The edits of a list are made in order; one that raises ends the method
\* and the rest are not made.  Result: the tree, the counts, and whether an
\* edit raised.
RECURSIVE ApplyEdits(_, _, _, _)
ApplyEdits(tree, count, edits, i) ==
    IF i > Len(edits) THEN [tree |-> tree, applied |-> count, raised |-> FALSE]
    ELSE LET r == replace_in_file(tree, edits[i])
         IN  IF r.raised
             THEN [tree |-> tree, applied |-> count, raised |-> TRUE]
             ELSE ApplyEdits(r.tree,
                             IF r.changed
                             THEN [count EXCEPT ![EditId(edits[i])] = @ + 1]
                             ELSE count,
                             edits, i + 1)

NotFetched == [x \in {} |-> {}]


----------------------------------------------------------------------------
\* Inputs of a run

\* The sub-settings of settings.compiler.
CompilerSub(c) ==
    IF c \in {"gcc", "clang"} THEN {"version", "libcxx", "cppstd"}
    ELSE {"version", "runtime", "cppstd"}

Settings(os, arch, compiler, cv) ==
    [os |-> os, arch |-> arch, compiler |-> compiler, compiler_version |-> cv,
     sub |-> CompilerSub(compiler)]

\* The toolchains of the runs modelled: (os, compiler, compiler version).
gdk_toolchains ==
    {<<"Windows", "gcc", 11>>, <<"Windows", "Visual Studio", 16>>,
     <<"Windows", "msvc", 193>>, <<"Linux", "gcc", 11>>, <<"Macos", "clang", 13>>}

iconv_toolchains ==
    {<<"Windows", "gcc", 11>>, <<"Windows", "clang", 13>>,
     <<"Windows", "Visual Studio", 11>>, <<"Windows", "Visual Studio", 16>>,
     <<"Windows", "msvc", 193>>, <<"Linux", "gcc", 11>>, <<"Linux", "clang", 13>>,
     <<"Macos", "clang", 13>>}

gdk_versions == {<<2, 40, 0>>, V2_42_0, V2_42_6}

iconv_versions == {<<1, 17, 0>>}

Archs == {"x86", "x86_64", "armv8"}

\* The build machine's architecture.
BuildArch == "x86_64"

BuildMachines == [os : {"Windows", "Linux"}, has_profile : BOOLEAN]

NoEnv == [k \in EnvNames |-> Unset]

AllOptionValues(domains) ==
    {o \in [DOMAIN domains -> UNION {domains[k] : k \in DOMAIN domains}] :
        \A k \in DOMAIN domains : o[k] \in domains[k]}

NoPrev == [recipe |-> "none", options |-> EmptyDict, build_os |-> "none",
           bash |-> FALSE, requires |-> {}, build_requires |-> {}]

\* _autotools = None
NoAutotools == [configured |-> FALSE, args |-> <<>>, flags |-> {}, host |-> "None",
                build |-> "None"]

\* The state of a recipe object the host runtime has just constructed.
Fresh ==
    /\ options = user_options
    /\ requires = {}
    /\ build_requires = {}
    /\ pc = "config_options"
    /\ err = "none"
    /\ source_tree = NotFetched
    /\ patched = 0
    /\ build_folder = {}
    /\ installed = {}
    /\ package_folder = {}
    /\ cwd = <<"build_folder">>
    /\ tool_env = NoEnv
    /\ tool_cwd = <<>>
    /\ defs = EmptyDict
    /\ autotools = NoAutotools
    /\ cpp_info = EmptyDict

----------------------------------------------------------------------------
\* recipes/gdk-pixbuf/all/conanfile.py

\* source(): the replace_in_file calls, in order.
gdk_edits(v) ==
    <<Edit("meson.build", "subdir('tests')", "#subdir('tests')"),
      Edit("meson.build", "subdir('thumbnailer')", "#subdir('thumbnailer')"),
      Edit("meson.build",
           IF VersionGE(v, V2_42_6)
           THEN "gmodule_dep.get_variable(pkgconfig: 'gmodule_supported')"
           ELSE "gmodule_dep.get_pkgconfig_variable('gmodule_supported')",
           "'true'")>>
    \o (IF VersionGE(v, V2_42_6)
        THEN <<Edit("build-aux/post-install.py", "close_fds=True",
                    "close_fds=(sys.platform != 'win32')")>>
        ELSE <<>>)

gdk_edit_ids ==
    {<<"meson.build", "subdir('tests')">>,
     <<"meson.build", "subdir('thumbnailer')">>,
     <<"meson.build", "gmodule_dep.get_variable(pkgconfig: 'gmodule_supported')">>,
     <<"meson.build", "gmodule_dep.get_pkgconfig_variable('gmodule_supported')">>,
     <<"build-aux/post-install.py", "close_fds=True">>}

\* What tools.get may unpack: upstream's meson.build calls gmodule one way or
\* the other (or not at all), and each other edited text is there or not.
gdk_upstream ==
    {[f \in {"meson.build", "build-aux/post-install.py"} |->
        IF f = "meson.build" THEN m \cup g ELSE c] :
        m \in SUBSET {"subdir('tests')", "subdir('thumbnailer')"},
        g \in {{}, {"gmodule_dep.get_variable(pkgconfig: 'gmodule_supported')"},
               {"gmodule_dep.get_pkgconfig_variable('gmodule_supported')"}},
        c \in SUBSET {"close_fds=True"}}

InitGdk ==
    /\ recipe = GDK
    /\ version \in gdk_versions
    /\ \E t \in gdk_toolchains : settings = Settings(t[1], BuildArch, t[2], t[3])
    /\ build_machine = [os |-> settings.os, has_profile |-> FALSE]
    /\ patches = 0
    /\ user_options \in AllOptionValues(gdk_options)
    /\ applied = [e \in gdk_edit_ids |-> 0]
    /\ env = NoEnv
    /\ prev = NoPrev
    /\ Fresh

\* config_options(self): the option set it leaves.
gdk_pruned(s, v, o) ==
    LET o1 == IF s.os = "Windows" THEN DelOption(o, "fPIC") ELSE o
    IN  IF VersionGE(v, V2_42_0) THEN DelOption(o1, "with_jasper") ELSE o1

\* config_options(self)
gdk_config_options ==
    /\ Running(GDK, "config_options")
    /\ options' = gdk_pruned(settings, version, options)
    /\ pc' = StageAfter("config_options")
    /\ UNCHANGED <<recipe, version, settings, build_machine, patches, user_options,
                   requires, build_requires, err, source_tree, applied, patched,
                   build_folder, installed, package_folder, env, cwd, tool_env,
                   tool_cwd, defs, autotools, cpp_info, prev>>

\* configure(self), with the Macos check left out.
gdk_configure_no_raise ==
    /\ Running(GDK, "configure")
    /\ options' = IF Truthy(options.shared)
                  THEN DelOption(options, "fPIC") ELSE options
    /\ settings' = DelCompilerSubsettings(settings)
    /\ pc' = StageAfter("configure")
    /\ UNCHANGED <<recipe, version, build_machine, patches, user_options,
                   requires, build_requires, err, source_tree, applied, patched,
                   build_folder, installed, package_folder, env, cwd, tool_env,
                   tool_cwd, defs, autotools, cpp_info, prev>>

\* configure(self)
gdk_configure ==
    /\ Running(GDK, "configure")
    /\ options' = IF Truthy(options.shared)
                  THEN DelOption(options, "fPIC") ELSE options
    /\ settings' = DelCompilerSubsettings(settings)
    /\ IF settings.os = "Macos"
       THEN err' = "ConanInvalidConfiguration" /\ pc' = pc
       ELSE err' = err /\ pc' = StageAfter("configure")
    /\ UNCHANGED <<recipe, version, build_machine, patches, user_options,
                   requires, build_requires, source_tree, applied, patched,
                   build_folder, installed, package_folder, env, cwd, tool_env,
                   tool_cwd, defs, autotools, cpp_info, prev>>

\* The requirements requirements(self) declares for option values o.
gdk_requires(o) ==
    {<<"glib", "2.70.4">>}
    \cup (IF Truthy(o.with_libpng) THEN {<<"libpng", "1.6.37">>} ELSE {})
    \cup (IF Truthy(o.with_libtiff) THEN {<<"libtiff", "4.3.0">>} ELSE {})
    \cup (IF o.with_libjpeg = "libjpeg-turbo" THEN {<<"libjpeg-turbo", "2.1.2">>}
          ELSE IF o.with_libjpeg = "libjpeg" THEN {<<"libjpeg", "9d">>} ELSE {})
    \cup (IF Truthy(get_safe(o, "with_jasper")) THEN {<<"jasper", "2.0.33">>} ELSE {})

\* The build requirements build_requirements(self) declares.
gdk_build_requires(o) ==
    {<<"meson", "0.61.2">>, <<"pkgconf", "1.7.4">>}
    \cup (IF Truthy(o.with_introspection)
          THEN {<<"gobject-introspection", "1.70.0">>} ELSE {})

\* requirements(self)
gdk_requirements ==
    /\ Running(GDK, "requirements")
    /\ requires' = requires \cup gdk_requires(options)
    /\ pc' = StageAfter("requirements")
    /\ UNCHANGED <<recipe, version, settings, build_machine, patches, user_options,
                   options, build_requires, err, source_tree, applied, patched,
                   build_folder, installed, package_folder, env, cwd, tool_env,
                   tool_cwd, defs, autotools, cpp_info, prev>>

\* build_requirements(self)
gdk_build_requirements ==
    /\ Running(GDK, "build_requirements")
    /\ build_requires' = build_requires \cup gdk_build_requires(options)
    /\ pc' = StageAfter("build_requirements")
    /\ UNCHANGED <<recipe, version, settings, build_machine, patches, user_options,
                   options, requires, err, source_tree, applied, patched,
                   build_folder, installed, package_folder, env, cwd, tool_env,
                   tool_cwd, defs, autotools, cpp_info, prev>>

\* source(self)
gdk_source ==
    /\ Running(GDK, "source")
    /\ \E fetched \in gdk_upstream :
        LET r == ApplyEdits(fetched, applied, gdk_edits(version), 1)
        IN  /\ source_tree' = r.tree
            /\ applied' = r.applied
            /\ IF r.raised
               THEN err' = "replace_in_file" /\ pc' = pc
               ELSE err' = err /\ pc' = StageAfter("source")
    /\ UNCHANGED <<recipe, version, settings, build_machine, patches, user_options,
                   options, requires, build_requires, patched,
                   build_folder, installed, package_folder, env, cwd, tool_env,
                   tool_cwd, defs, autotools, cpp_info, prev>>


\* The jpeg switch read from the libjpeg-turbo choice only.
gdk_meson_defs_jpeg_turbo_only(v, o) ==
    LET d1 == IF VersionGE(v, V2_42_0)
              THEN Put(EmptyDict, "introspection", "false")
              ELSE Put(EmptyDict, "gir", "false")
        d2 == Put(Put(Put(d1, "docs", "false"), "man", "false"),
                  "installed_tests", "false")
        d3 == Put(d2, "png", IF Truthy(o.with_libpng) THEN "true" ELSE "false")
        d4 == Put(d3, "tiff", IF Truthy(o.with_libtiff) THEN "true" ELSE "false")
        d5 == Put(d4, "jpeg",
                  IF o.with_libjpeg = "libjpeg-turbo" THEN "true" ELSE "false")
        d6 == IF "with_jasper" \in DOMAIN o
              THEN Put(d5, "jasper", IF Truthy(o.with_jasper) THEN "true" ELSE "false")
              ELSE d5
        d7 == IF ~VersionGE(v, V2_42_0) THEN Put(d6, "x11", "false") ELSE d6
        d8 == Put(Put(d7, "builtin_loaders", "all"), "gio_sniffing", "false")
    IN  Put(d8, "introspection",
            IF Truthy(o.with_introspection) THEN "enabled" ELSE "disabled")

\* _configure_meson(self): the defs dictionary passed to meson.configure,
\* built assignment by assignment.
gdk_meson_defs(v, o) ==
    LET d1 == IF VersionGE(v, V2_42_0)
              THEN Put(EmptyDict, "introspection", "false")
              ELSE Put(EmptyDict, "gir", "false")
        d2 == Put(Put(Put(d1, "docs", "false"), "man", "false"),
                  "installed_tests", "false")
        d3 == Put(d2, "png", IF Truthy(o.with_libpng) THEN "true" ELSE "false")
        d4 == Put(d3, "tiff", IF Truthy(o.with_libtiff) THEN "true" ELSE "false")
        d5 == Put(d4, "jpeg", IF Truthy(o.with_libjpeg) THEN "true" ELSE "false")
        d6 == IF "with_jasper" \in DOMAIN o
              THEN Put(d5, "jasper", IF Truthy(o.with_jasper) THEN "true" ELSE "false")
              ELSE d5
        d7 == IF ~VersionGE(v, V2_42_0) THEN Put(d6, "x11", "false") ELSE d6
        d8 == Put(Put(d7, "builtin_loaders", "all"), "gio_sniffing", "false")
    IN  Put(d8, "introspection",
            IF Truthy(o.with_introspection) THEN "enabled" ELSE "disabled")

\* The <name>.pc files the pkg_config generator writes into the build folder,
\* one per requirement.
GeneratedPc(reqs) == {File(<<>>, <<r[1], "pc">>) : r \in reqs}

\* How the external build system ends: "ok" or the step that failed.
MesonBuildOutcomes == {"ok", "configure", "build"}
MesonInstallOutcomes == {"ok", "configure", "install"}

\* build(self)
gdk_build ==
    /\ Running(GDK, "build")
    /\ \E outcome \in MesonBuildOutcomes :
        LET generated == build_folder \cup GeneratedPc(requires)
            libpng_pc == File(<<>>, <<"libpng", "pc">>)
            move_raises == Truthy(options.with_libpng) /\ libpng_pc \notin generated
            moved == IF Truthy(options.with_libpng)
                     THEN rename(generated, libpng_pc, File(<<>>, <<"libpng16", "pc">>))
                     ELSE generated
        IN  IF move_raises
            THEN /\ build_folder' = generated
                 /\ err' = "move" /\ pc' = pc
                 /\ UNCHANGED <<defs, tool_env, tool_cwd>>
            ELSE /\ build_folder' = moved
                 /\ defs' = gdk_meson_defs(version, options)
                 /\ tool_env' = env
                 /\ tool_cwd' = cwd
                 /\ IF outcome = "ok"
                    THEN err' = err /\ pc' = StageAfter("build")
                    ELSE err' = outcome /\ pc' = pc
    /\ UNCHANGED <<recipe, version, settings, build_machine, patches, user_options,
                   options, requires, build_requires, source_tree, applied, patched,
                   installed, package_folder, env, cwd, autotools, cpp_info, prev>>

gdk_static_lib == File(<<"lib">>, <<"libgdk_pixbuf-2.0", "a">>)
gdk_msvc_lib == File(<<"lib">>, <<"gdk_pixbuf-2.0", "lib">>)

\* The files meson install may leave in the package folder besides the
\* headers: any of these.
gdk_install_universe ==
    {gdk_static_lib,
     File(<<"lib">>, <<"libgdk_pixbuf-2.0", "la">>),
     File(<<"lib", "pkgconfig">>, <<"gdk-pixbuf-2.0", "pc">>),
     File(<<"share", "locale">>, <<"gdk-pixbuf", "mo">>),
     File(<<"bin">>, <<"gdk-pixbuf-pixdata", "pdb">>)}

gdk_headers == {File(<<"include", "gdk-pixbuf-2.0">>, <<"gdk-pixbuf", "h">>)}

\* package(self), after the install scope: the rename and the removals.
\* Result: the package folder and whether os.rename raised.
gdk_package_cleanup(fs, s, o) ==
    LET must_rename == s.compiler \in {"Visual Studio", "msvc"} /\ ~Truthy(o.shared)
        raises == must_rename /\ gdk_static_lib \notin fs
        fs1 == IF must_rename THEN rename(fs, gdk_static_lib, gdk_msvc_lib) ELSE fs
        fs2 == rmdir(fs1, <<"lib", "pkgconfig">>)
        fs3 == rmdir(fs2, <<"share">>)
        fs4 == remove_files_by_mask(fs3, <<>>, "pdb")
    IN  IF raises THEN [fs |-> fs, raised |-> TRUE]
        ELSE [fs |-> fs4, raised |-> FALSE]

\* package(self)
gdk_package ==
    /\ Running(GDK, "package")
    /\ \E outcome \in MesonInstallOutcomes :
       \E out \in SUBSET gdk_install_universe :
        LET copied == package_folder \cup {File(<<"licenses">>, <<"COPYING">>)}
            inside == environment_append(env,
                        Put(EmptyDict, "LD_LIBRARY_PATH", <<"package_folder", "lib">>))
            after == IF outcome = "ok" THEN copied \cup gdk_headers \cup out ELSE copied
            c == gdk_package_cleanup(after, settings, options)
        IN  /\ outcome # "ok" => out = {}
            /\ defs' = gdk_meson_defs(version, options)
            /\ tool_env' = inside
            /\ tool_cwd' = cwd
            /\ env' = scope_exit(env, inside, outcome # "ok")
            /\ installed' = IF outcome = "ok" THEN gdk_headers \cup out ELSE {}
            /\ IF outcome # "ok"
               THEN package_folder' = after /\ err' = outcome /\ pc' = pc
               ELSE IF c.raised
               THEN package_folder' = c.fs /\ err' = "rename" /\ pc' = pc
               ELSE package_folder' = c.fs /\ err' = err /\ pc' = StageAfter("package")
    /\ UNCHANGED <<recipe, version, settings, build_machine, patches, user_options,
                   options, requires, build_requires, source_tree, applied, patched,
                   build_folder, cwd, autotools, cpp_info, prev>>

\* tools.collect_libs(self): the libraries of the package's lib folder.
collect_libs(fs) ==
    {p.base[1] : p \in {q \in fs : q.dir = <<"lib">>
                                   /\ q.base[Len(q.base)] \in {"a", "lib", "so", "dylib"}}}

\* package_info(self)
gdk_package_info ==
    /\ Running(GDK, "package_info")
    /\ cpp_info' =
        [libs |-> collect_libs(package_folder),
         includedirs |-> {"include/gdk-pixbuf-2.0"},
         names |-> {"gdk-pixbuf-2.0"},
         defines |-> IF ~Truthy(options.shared)
                     THEN {"GDK_PIXBUF_STATIC_COMPILATION"} ELSE {},
         system_libs |-> IF settings.os \in {"Linux", "FreeBSD"} THEN {"m"} ELSE {},
         env_info |-> {"GDK_PIXBUF_PIXDATA"}]
    /\ pc' = StageAfter("package_info")
    /\ UNCHANGED <<recipe, version, settings, build_machine, patches, user_options,
                   options, requires, build_requires, err, source_tree, applied,
                   patched, build_folder, installed, package_folder, env, cwd,
                   tool_env, tool_cwd, defs, autotools, prev>>


----------------------------------------------------------------------------
\* recipes/libiconv/all/conanfile.py

\* _is_msvc
iconv_is_msvc(s) == s.compiler \in {"Visual Studio", "msvc"}

\* _is_clang_cl
iconv_is_clang_cl(s) == s.compiler = "clang" /\ s.os = "Windows"

\* tools.os_info.is_windows
os_info_is_windows(bm) == bm.os = "Windows"

\* tools.cross_building(self): the host differs from the build machine.
cross_building(s, bm) == s.os # bm.os \/ s.arch # BuildArch

\* _use_winbash
iconv_use_winbash(s, bm) ==
    os_info_is_windows(bm) /\ (s.compiler = "gcc" \/ cross_building(s, bm))

\* _settings_build.os: the build profile's os, or settings.os without one.
iconv_settings_build_os(s, bm) == IF bm.has_profile THEN bm.os ELSE s.os

\* tools.get_env("CONAN_BASH_PATH")
HasBashPath(e) == e["CONAN_BASH_PATH"] # Unset

\* build_requirements(self) reading settings.os instead of _settings_build.os.
iconv_build_requires_host_os(s, bm, e) ==
    IF s.os = "Windows" /\ ~HasBashPath(e)
    THEN {<<"msys2", "cci.latest">>} ELSE {}

\* The build requirements build_requirements(self) declares.
iconv_build_requires(s, bm, e) ==
    IF iconv_settings_build_os(s, bm) = "Windows" /\ ~HasBashPath(e)
    THEN {<<"msys2", "cci.latest">>} ELSE {}

\* config_options(self), deleting fPIC for the wrong os.
iconv_pruned_wrong_os(s, o) == IF s.os = "Linux" THEN DelOption(o, "fPIC") ELSE o

\* config_options(self): the option set it leaves.
iconv_pruned(s, o) == IF s.os = "Windows" THEN DelOption(o, "fPIC") ELSE o

iconv_edits ==
    <<Edit("configure", "-install_name \\$rpath/", "-install_name @rpath/"),
      Edit("libcharset/configure", "-install_name \\$rpath/", "-install_name @rpath/")>>

iconv_edit_ids ==
    {<<"configure", "-install_name \\$rpath/">>,
     <<"libcharset/configure", "-install_name \\$rpath/">>}

\* What tools.get may unpack: each configure script holds the text or not.
iconv_upstream ==
    [{"configure", "libcharset/configure"} -> SUBSET {"-install_name \\$rpath/"}]

InitIconv ==
    /\ recipe = ICONV
    /\ version \in iconv_versions
    /\ \E t \in iconv_toolchains, a \in Archs : settings = Settings(t[1], a, t[2], t[3])
    /\ build_machine \in BuildMachines
    /\ patches \in 0..MaxPatches
    /\ user_options \in AllOptionValues(iconv_options)
    /\ applied = [e \in iconv_edit_ids |-> 0]
    /\ \E bash \in {Unset, <<"C:/msys64/usr/bin/bash.exe">>},
          cc \in {Unset, <<"clang-cl-15">>} :
          env = [NoEnv EXCEPT !["CONAN_BASH_PATH"] = bash, !["CC"] = cc]
    /\ prev = NoPrev
    /\ Fresh

\* config_options(self)
iconv_config_options ==
    /\ Running(ICONV, "config_options")
    /\ options' = iconv_pruned(settings, options)
    /\ pc' = StageAfter("config_options")
    /\ UNCHANGED <<recipe, version, settings, build_machine, patches, user_options,
                   requires, build_requires, err, source_tree, applied, patched,
                   build_folder, installed, package_folder, env, cwd, tool_env,
                   tool_cwd, defs, autotools, cpp_info, prev>>

\* configure(self)
iconv_configure ==
    /\ Running(ICONV, "configure")
    /\ options' = IF Truthy(options.shared)
                  THEN DelOption(options, "fPIC") ELSE options
    /\ settings' = DelCompilerSubsettings(settings)
    /\ pc' = StageAfter("configure")
    /\ UNCHANGED <<recipe, version, build_machine, patches, user_options,
                   requires, build_requires, err, source_tree, applied, patched,
                   build_folder, installed, package_folder, env, cwd, tool_env,
                   tool_cwd, defs, autotools, cpp_info, prev>>

\* The recipe does not define requirements(): the stage declares nothing.
iconv_requirements ==
    /\ Running(ICONV, "requirements")
    /\ pc' = StageAfter("requirements")
    /\ UNCHANGED <<recipe, version, settings, build_machine, patches, user_options,
                   options, requires, build_requires, err, source_tree, applied,
                   patched, build_folder, installed, package_folder, env, cwd,
                   tool_env, tool_cwd, defs, autotools, cpp_info, prev>>

\* build_requirements(self)
iconv_build_requirements ==
    /\ Running(ICONV, "build_requirements")
    /\ build_requires' = build_requires
                         \cup iconv_build_requires(settings, build_machine, env)
    /\ pc' = StageAfter("build_requirements")
    /\ UNCHANGED <<recipe, version, settings, build_machine, patches, user_options,
                   options, requires, err, source_tree, applied, patched,
                   build_folder, installed, package_folder, env, cwd, tool_env,
                   tool_cwd, defs, autotools, cpp_info, prev>>

\* source(self), declaring a build requirement after the requirements stage.
iconv_source_late_requires ==
    /\ Running(ICONV, "source")
    /\ source_tree' \in iconv_upstream
    /\ build_requires' = build_requires \cup {<<"msys2", "cci.latest">>}
    /\ pc' = StageAfter("source")
    /\ UNCHANGED <<recipe, version, settings, build_machine, patches, user_options,
                   options, requires, err, applied, patched,
                   build_folder, installed, package_folder, env, cwd, tool_env,
                   tool_cwd, defs, autotools, cpp_info, prev>>

\* source(self)
iconv_source ==
    /\ Running(ICONV, "source")
    /\ source_tree' \in iconv_upstream
    /\ pc' = StageAfter("source")
    /\ UNCHANGED <<recipe, version, settings, build_machine, patches, user_options,
                   options, requires, build_requires, err, applied, patched,
                   build_folder, installed, package_folder, env, cwd, tool_env,
                   tool_cwd, defs, autotools, cpp_info, prev>>

\* _build_context(self): the env_vars dictionary.
iconv_env_vars(s, bm, e) ==
    LET msvc == iconv_is_msvc(s)
        tc == msvc \/ iconv_is_clang_cl(s)
        cc == IF msvc THEN <<"cl">> ELSE environ_get(e, "CC", <<"clang-cl">>)
        cxx == IF msvc THEN <<"cl">> ELSE environ_get(e, "CXX", <<"clang-cl">>)
        lib == IF msvc THEN <<"lib">> ELSE environ_get(e, "AR", <<"llvm-lib">>)
        v1 == IF tc
              THEN [CC |-> <<"build-aux/compile">> \o cc \o <<"-nologo">>,
                    CXX |-> <<"build-aux/compile">> \o cxx \o <<"-nologo">>,
                    LD |-> <<"link">>,
                    STRIP |-> <<":">>,
                    AR |-> <<"build-aux/ar-lib">> \o lib,
                    RANLIB |-> <<":">>,
                    NM |-> <<"dumpbin", "-symbols">>,
                    win32_target |-> <<"_WIN32_WINNT_VISTA">>]
              ELSE EmptyDict
        rc == IF s.arch = "x86" THEN <<"windres", "--target=pe-i386">>
              ELSE IF s.arch = "x86_64" THEN <<"windres", "--target=pe-x86-64">>
              ELSE Unset
        v2 == IF (~cross_building(s, bm) \/ tc) /\ rc # Unset
              THEN Put(Put(v1, "RC", rc), "WINDRES", rc)
              ELSE v1
    IN  IF iconv_use_winbash(s, bm) THEN Put(v2, "RANLIB", <<":">>) ELSE v2

\* tools.vcvars(self.settings): the Visual Studio environment, for msvc and
\* clang-cl; tools.no_op() otherwise.
iconv_vcvars(s, e) ==
    IF iconv_is_msvc(s) \/ iconv_is_clang_cl(s)
    THEN environment_append(e, Put(EmptyDict, "VSINSTALLDIR", <<"vs">>))
    ELSE e

\* _build_context(self): os.environ and the working directory inside the
\* three nested scopes.
iconv_context_env(s, bm, e) ==
    environment_append(iconv_vcvars(s, e), iconv_env_vars(s, bm, e))

iconv_context_cwd(d) == d \o <<"source_subfolder">>

\* Leaving _build_context: environment_append, chdir and vcvars exit in turn.
iconv_context_exit_env(s, bm, e, raised) ==
    LET vc == iconv_vcvars(s, e)
        inner == scope_exit(vc, iconv_context_env(s, bm, e), raised)
    IN  scope_exit(e, inner, raised)

\* _configure_autotools(self): the AutoToolsBuildEnvironment it configures.
iconv_configure_autotools(s, o) ==
    LET tc == iconv_is_msvc(s) \/ iconv_is_clang_cl(s)
    IN  [configured |-> TRUE,
         args |-> IF Truthy(o.shared) THEN <<"--disable-static", "--enable-shared">>
                  ELSE <<"--enable-static", "--disable-shared">>,
         flags |-> IF (s.compiler = "Visual Studio" /\ s.compiler_version >= 12)
                      \/ s.compiler = "msvc"
                   THEN {"-FS"} ELSE {},
         host |-> IF tc /\ s.arch = "x86" THEN "i686-w64-mingw32"
                  ELSE IF tc /\ s.arch = "x86_64" THEN "x86_64-w64-mingw32"
                  ELSE "None",
         build |-> IF tc THEN "False" ELSE "None"]

\* How tools.patch, configure and make end: "ok" or the step that failed.
AutotoolsBuildOutcomes == {"ok", "patch", "configure", "make"}

\* build(self)
iconv_build ==
    /\ Running(ICONV, "build")
    /\ \E outcome \in AutotoolsBuildOutcomes :
        LET r == ApplyEdits(source_tree, applied, iconv_edits, 1)
            inside == iconv_context_env(settings, build_machine, env)
            raised == outcome # "ok"
        IN  /\ outcome = "patch" => patches > 0
            /\ IF outcome = "patch"
               THEN /\ patched' \in 1..patches
                    /\ err' = "patch" /\ pc' = pc
                    /\ UNCHANGED <<source_tree, applied, env, cwd, tool_env,
                                   tool_cwd, autotools>>
               ELSE IF r.raised
               THEN /\ patched' = patches
                    /\ source_tree' = r.tree /\ applied' = r.applied
                    /\ err' = "replace_in_file" /\ pc' = pc
                    /\ UNCHANGED <<env, cwd, tool_env, tool_cwd, autotools>>
               ELSE /\ patched' = patches
                    /\ source_tree' = r.tree /\ applied' = r.applied
                    /\ tool_env' = inside
                    /\ tool_cwd' = iconv_context_cwd(cwd)
                    /\ autotools' = IF autotools.configured THEN autotools
                                    ELSE iconv_configure_autotools(settings, options)
                    /\ env' = iconv_context_exit_env(settings, build_machine, env, raised)
                    /\ cwd' = scope_exit(cwd, iconv_context_cwd(cwd), raised)
                    /\ IF raised
                       THEN err' = outcome /\ pc' = pc
                       ELSE err' = err /\ pc' = StageAfter("build")
    /\ UNCHANGED <<recipe, version, settings, build_machine, patches, user_options,
                   options, requires, build_requires, build_folder, installed,
                   package_folder, defs, cpp_info, prev>>


iconv_import_lib(name) == File(<<"lib">>, <<name, "dll", "lib">>)
iconv_lib(name) == File(<<"lib">>, <<name, "lib">>)

\* The files make install may leave in the package folder besides the
\* headers: any of these.
iconv_install_universe ==
    {File(<<"lib">>, <<"libiconv", "la">>),
     iconv_import_lib("iconv"),
     iconv_import_lib("charset"),
     File(<<"share", "doc">>, <<"iconv", "1", "html">>),
     File(<<"lib", "pkgconfig">>, <<"iconv", "pc">>)}

iconv_headers == {File(<<"include">>, <<"iconv", "h">>)}

\* The import-library renames of package(), made in order; a missing file
\* raises and ends the loop.
RECURSIVE iconv_rename_import_libs(_, _, _)
iconv_rename_import_libs(fs, names, i) ==
    IF i > Len(names) THEN [fs |-> fs, raised |-> FALSE]
    ELSE IF iconv_import_lib(names[i]) \notin fs THEN [fs |-> fs, raised |-> TRUE]
    ELSE iconv_rename_import_libs(
            rename(fs, iconv_import_lib(names[i]), iconv_lib(names[i])), names, i + 1)

\* package(self) with the rename made for static builds too.
iconv_package_cleanup_always_rename(fs, s, o) ==
    LET fs1 == remove_files_by_mask(fs, <<"lib">>, "la")
        fs2 == rmdir(fs1, <<"share">>)
    IN  IF iconv_is_msvc(s) \/ iconv_is_clang_cl(s)
        THEN iconv_rename_import_libs(fs2, <<"iconv", "charset">>, 1)
        ELSE [fs |-> fs2, raised |-> FALSE]

\* package(self) without the removal of the *.la files.
iconv_package_cleanup_keep_la(fs, s, o) ==
    LET fs2 == rmdir(fs, <<"share">>)
    IN  IF (iconv_is_msvc(s) \/ iconv_is_clang_cl(s)) /\ Truthy(o.shared)
        THEN iconv_rename_import_libs(fs2, <<"iconv", "charset">>, 1)
        ELSE [fs |-> fs2, raised |-> FALSE]

\* package(self), after the install scope: the removals and the renames.
\* Result: the package folder and whether a rename raised.
iconv_package_cleanup(fs, s, o) ==
    LET fs1 == remove_files_by_mask(fs, <<"lib">>, "la")
        fs2 == rmdir(fs1, <<"share">>)
    IN  IF (iconv_is_msvc(s) \/ iconv_is_clang_cl(s)) /\ Truthy(o.shared)
        THEN iconv_rename_import_libs(fs2, <<"iconv", "charset">>, 1)
        ELSE [fs |-> fs2, raised |-> FALSE]

\* How configure (when _autotools is not set yet) and make install end.
AutotoolsInstallOutcomes == {"ok", "configure", "install"}

\* package(self)
iconv_package ==
    /\ Running(ICONV, "package")
    /\ \E outcome \in AutotoolsInstallOutcomes :
       \E out \in SUBSET iconv_install_universe :
        LET copied == package_folder \cup {File(<<"licenses">>, <<"COPYING", "LIB">>)}
            inside == iconv_context_env(settings, build_machine, env)
            raised == outcome # "ok"
            after == IF raised THEN copied ELSE copied \cup iconv_headers \cup out
            c == iconv_package_cleanup(after, settings, options)
        IN  /\ raised => out = {}
            /\ outcome = "configure" => ~autotools.configured
            /\ tool_env' = inside
            /\ tool_cwd' = iconv_context_cwd(cwd)
            /\ autotools' = IF autotools.configured THEN autotools
                            ELSE iconv_configure_autotools(settings, options)
            /\ env' = iconv_context_exit_env(settings, build_machine, env, raised)
            /\ cwd' = scope_exit(cwd, iconv_context_cwd(cwd), raised)
            /\ installed' = IF raised THEN {} ELSE iconv_headers \cup out
            /\ IF raised
               THEN package_folder' = after /\ err' = outcome /\ pc' = pc
               ELSE IF c.raised
               THEN package_folder' = c.fs /\ err' = "rename" /\ pc' = pc
               ELSE package_folder' = c.fs /\ err' = err /\ pc' = StageAfter("package")
    /\ UNCHANGED <<recipe, version, settings, build_machine, patches, user_options,
                   options, requires, build_requires, source_tree, applied, patched,
                   build_folder, defs, cpp_info, prev>>

\* package_info(self)
iconv_package_info ==
    /\ Running(ICONV, "package_info")
    /\ cpp_info' =
        [libs |-> {"iconv", "charset"},
         includedirs |-> {"include"},
         names |-> {"Iconv"},
         defines |-> {},
         system_libs |-> {},
         env_info |-> {"PATH"}]
    /\ pc' = StageAfter("package_info")
    /\ UNCHANGED <<recipe, version, settings, build_machine, patches, user_options,
                   options, requires, build_requires, err, source_tree, applied,
                   patched, build_folder, installed, package_folder, env, cwd,
                   tool_env, tool_cwd, defs, autotools, prev>>

----------------------------------------------------------------------------
\* A run of either recipe

Init == InitGdk \/ InitIconv

Next ==
    \/ gdk_config_options
    \/ gdk_configure
    \/ gdk_requirements
    \/ gdk_build_requirements
    \/ gdk_source
    \/ gdk_build
    \/ gdk_package
    \/ gdk_package_info
    \/ iconv_config_options
    \/ iconv_configure
    \/ iconv_requirements
    \/ iconv_build_requirements
    \/ iconv_source
    \/ iconv_build
    \/ iconv_package
    \/ iconv_package_info

Spec == Init /\ [][Next]_vars


----------------------------------------------------------------------------
\* Two runs in a row, to compare their dependency declarations: each run goes
\* through config_options, configure, requirements and build_requirements,
\* and the next run starts with the same user options on another machine.

InitDeclare ==
    /\ \/ InitGdk
       \/ /\ InitIconv
          /\ settings.arch = BuildArch
          /\ patches = 0
          /\ env["CC"] = Unset

\* The host runtime starts the recipe again: same recipe and user options,
\* any target, build machine and environment.
NewRun ==
    /\ pc = "source" /\ err = "none"
    /\ prev' = [recipe |-> recipe, options |-> options,
                build_os |-> iconv_settings_build_os(settings, build_machine),
                bash |-> HasBashPath(env),
                requires |-> requires, build_requires |-> build_requires]
    /\ IF recipe = GDK
       THEN /\ version' \in gdk_versions
            /\ \E t \in gdk_toolchains :
                /\ settings' = Settings(t[1], BuildArch, t[2], t[3])
                /\ build_machine' = [os |-> t[1], has_profile |-> FALSE]
            /\ env' = env
       ELSE /\ version' = version
            /\ \E t \in iconv_toolchains :
                settings' = Settings(t[1], BuildArch, t[2], t[3])
            /\ build_machine' \in BuildMachines
            /\ \E bash \in {Unset, <<"C:/msys64/usr/bin/bash.exe">>} :
                env' = [env EXCEPT !["CONAN_BASH_PATH"] = bash]
    /\ options' = user_options
    /\ requires' = {}
    /\ build_requires' = {}
    /\ pc' = "config_options"
    /\ UNCHANGED <<recipe, patches, user_options, err, source_tree, applied, patched,
                   build_folder, installed, package_folder, cwd, tool_env, tool_cwd,
                   defs, autotools, cpp_info>>

NextDeclare ==
    \/ gdk_config_options
    \/ gdk_configure
    \/ gdk_requirements
    \/ gdk_build_requirements
    \/ iconv_config_options
    \/ iconv_configure
    \/ iconv_requirements
    \/ iconv_build_requirements
    \/ NewRun

SpecDeclare == InitDeclare /\ [][NextDeclare]_vars


----------------------------------------------------------------------------
\* Properties

\* config_options() and configure() have both been called.
ConfigDone == Completed("configure") \/ Raised("configure")

Requires(name) == \E r \in requires : r[1] = name

BuildRequires(name) == \E r \in build_requires : r[1] = name

\* C1: in both recipes, after config_options() and configure() the option set
\* holds no fPIC when settings.os is Windows, whatever shared is, and (gdk-pixbuf)
\* no with_jasper from version 2.42.0 on.
C1_NoInvalidOption ==
    ConfigDone =>
        /\ settings.os = "Windows" => "fPIC" \notin DOMAIN options
        /\ (recipe = GDK /\ VersionGE(version, V2_42_0))
               => "with_jasper" \notin DOMAIN options

\* A static libiconv configuration for Windows, configured: fPIC was asked for
\* and is gone for the os alone.
C1_Witness ==
    /\ recipe = ICONV /\ ConfigDone /\ settings.os = "Windows"
    /\ user_options.shared = "False" /\ user_options.fPIC = "True"
    /\ "fPIC" \notin DOMAIN options

\* C2: a gdk-pixbuf run for Macos never gets past configure(): nothing is
\* fetched, built or packaged, and the only error it ends in is
\* ConanInvalidConfiguration.
C2_MacosAborts ==
    (recipe = GDK /\ settings.os = "Macos") =>
        /\ pc \in {"config_options", "configure"}
        /\ source_tree = NotFetched
        /\ package_folder = {}
        /\ err \in {"none", "ConanInvalidConfiguration"}
        /\ (pc = "config_options" => err = "none")

\* A gdk-pixbuf run for Macos whose configure() has raised.
C2_Witness ==
    /\ recipe = GDK /\ settings.os = "Macos"
    /\ Raised("configure") /\ err = "ConanInvalidConfiguration"

\* Both runs have declared their dependencies, for the same recipe with the
\* same option values.
SameOptionsDeclared ==
    /\ prev.recipe = recipe
    /\ pc = "source" /\ err = "none"
    /\ prev.options = options

\* C3 as claimed: two dependency declarations of a recipe with identical
\* option values give identical requirement sets, whatever else differs.
C3_PureInOptions ==
    SameOptionsDeclared =>
        prev.requires = requires /\ prev.build_requires = build_requires

\* C3 as amended: two dependency declarations with identical option values
\* give identical requirements, and identical build requirements when, for
\* libiconv, the build os (_settings_build.os) and the presence of
\* CONAN_BASH_PATH are the same too.
C3_PureInOptionsAndBuildMachine ==
    SameOptionsDeclared =>
        /\ prev.requires = requires
        /\ (recipe = GDK
            \/ (/\ prev.build_os = iconv_settings_build_os(settings, build_machine)
                /\ prev.bash = HasBashPath(env)))
               => prev.build_requires = build_requires

\* Two libiconv runs on Windows build machines without CONAN_BASH_PATH, for
\* different targets: both declared msys2.
C3_Witness ==
    /\ SameOptionsDeclared /\ recipe = ICONV
    /\ prev.build_os = "Windows" /\ build_machine.os = "Windows"
    /\ build_machine.has_profile /\ settings.os = "Linux"
    /\ ~prev.bash /\ ~HasBashPath(env)
    /\ BuildRequires("msys2")

\* C4 as claimed: a gdk-pixbuf run for a version >= 2.42.0 that was started
\* with with_jasper=True does not get past the configuration stage.
C4_JasperRequestFailsFast ==
    (recipe = GDK /\ VersionGE(version, V2_42_0) /\ Truthy(user_options.with_jasper))
        => ~Completed("configure")

\* libiconv: the toolchain and linkage for which package() renames.
NeedsRename ==
    (iconv_is_msvc(settings) \/ iconv_is_clang_cl(settings)) /\ Truthy(options.shared)

ImportLibNames == {"iconv", "charset"}

\* C5: after libiconv's package() has completed, for shared=True on msvc,
\* Visual Studio or clang on Windows with both *.dll.lib files installed, the
\* package holds lib/iconv.lib and lib/charset.lib and neither *.dll.lib; for
\* every other configuration the *.dll.lib files are as installed and no
\* renamed file exists.
C5_ImportLibsRenamed ==
    (recipe = ICONV /\ Completed("package")) =>
        IF NeedsRename
        THEN (\A n \in ImportLibNames : iconv_import_lib(n) \in installed)
                => \A n \in ImportLibNames :
                      /\ iconv_lib(n) \in package_folder
                      /\ iconv_import_lib(n) \notin package_folder
        ELSE \A n \in ImportLibNames :
                /\ iconv_lib(n) \notin package_folder
                /\ iconv_import_lib(n) \in package_folder
                      <=> iconv_import_lib(n) \in installed

\* A shared libiconv package built with a renaming toolchain, packaged.
C5_Witness ==
    /\ recipe = ICONV /\ Completed("package") /\ NeedsRename
    /\ \A n \in ImportLibNames : iconv_import_lib(n) \in installed
    /\ \A n \in ImportLibNames : iconv_lib(n) \in package_folder

StaticPackaged == Completed("package") /\ ~Truthy(options.shared)

PkgConfigMetadata(p) == InDir(p, <<"lib", "pkgconfig">>) \/ MatchesMask(p, "pc")

\* C6 as claimed: a static package of either recipe holds no *.la file and no
\* package-config metadata, whatever the install step left.
C6_StaticNoLaNoPkgConfig ==
    StaticPackaged =>
        \A p \in package_folder : ~MatchesMask(p, "la") /\ ~PkgConfigMetadata(p)

\* C6 as amended: a static gdk-pixbuf package holds no lib/pkgconfig
\* directory, and a static libiconv package holds no *.la file under lib.
C6_StaticStripped ==
    StaticPackaged =>
        /\ recipe = GDK =>
              \A p \in package_folder : ~InDir(p, <<"lib", "pkgconfig">>)
        /\ recipe = ICONV =>
              \A p \in package_folder : ~(InDir(p, <<"lib">>) /\ MatchesMask(p, "la"))

\* A static libiconv package whose install step left a *.la file.
C6_Witness ==
    /\ StaticPackaged /\ recipe = ICONV
    /\ \E p \in installed : MatchesMask(p, "la")
    /\ \A p \in package_folder : ~MatchesMask(p, "la")

\* The source edits of the running recipe, in order.
RecipeEdits == IF recipe = GDK THEN gdk_edits(version) ELSE iconv_edits

\* The method that makes the source edits has returned (also when an
\* external tool failed after it).
EditsMade ==
    \/ recipe = GDK /\ Completed("source")
    \/ recipe = ICONV /\ (Completed("build")
                          \/ (Raised("build") /\ err \in {"configure", "make"}))

\* C7: every source edit is applied at most once; when the editing method has
\* returned, every edit of the recipe was applied (none was skipped); and a
\* run that ended in replace_in_file stopped at the first edit whose text is
\* missing, with the edits before it applied and none after it.
C7_EditsOnceOrFail ==
    /\ \A e \in DOMAIN applied : applied[e] <= 1
    /\ EditsMade =>
          \A i \in 1..Len(RecipeEdits) : applied[EditId(RecipeEdits[i])] = 1
    /\ err = "replace_in_file" =>
          \E i \in 1..Len(RecipeEdits) :
              /\ ~Found(source_tree, RecipeEdits[i])
              /\ \A j \in 1..(i - 1) : applied[EditId(RecipeEdits[j])] = 1
              /\ \A j \in i..Len(RecipeEdits) : applied[EditId(RecipeEdits[j])] = 0

\* A gdk-pixbuf run that failed at a later edit after making the first one.
C7_Witness ==
    /\ recipe = GDK /\ Raised("source") /\ err = "replace_in_file"
    /\ applied[<<"meson.build", "subdir('tests')">>] = 1
    /\ applied[<<"meson.build", "subdir('thumbnailer')">>] = 0

\* C8: every stage leaves os.environ and the working directory as it found
\* them, also when the external tool inside a scope failed.
C8_ScopesRestore == [][env' = env /\ cwd' = cwd]_vars

\* A libiconv build whose make failed inside the build context: the tool ran
\* with an overridden environment in the source folder, and both are back.
C8_Witness ==
    /\ recipe = ICONV /\ Raised("build") /\ err = "make"
    /\ tool_env # env /\ tool_cwd # cwd
    /\ cwd = <<"build_folder">>
    /\ env["RANLIB"] = Unset /\ tool_env["RANLIB"] # Unset

\* C9: from the end of the requirements stage on (source, build, package,
\* package_info) no step changes the requirements or the build requirements.
C9_RequirementsFixed ==
    [][StageIndex(pc) > StageIndex("build_requirements")
          => requires' = requires /\ build_requires' = build_requires]_vars

\* A finished run with requirements and build requirements declared.
C9_Witness ==
    /\ pc = "done" /\ requires # {} /\ build_requires # {}

\* C10: the codec switches passed to meson agree with the declared
\* requirements.
C10_SwitchesMatchRequirements ==
    (recipe = GDK /\ DOMAIN defs # {}) =>
        /\ defs["png"] = "true" <=> Requires("libpng")
        /\ defs["tiff"] = "true" <=> Requires("libtiff")
        /\ defs["jpeg"] = "true" <=> (Requires("libjpeg") \/ Requires("libjpeg-turbo"))
        /\ ~(Requires("libjpeg") /\ Requires("libjpeg-turbo"))
        /\ "jasper" \in DOMAIN defs <=> "with_jasper" \in DOMAIN options
        /\ IF "jasper" \in DOMAIN defs
           THEN defs["jasper"] = "true" <=> Requires("jasper")
           ELSE ~Requires("jasper")
        /\ defs["introspection"] = "enabled" <=> BuildRequires("gobject-introspection")
        /\ \A k \in {"png", "tiff", "jpeg"} : defs[k] \in {"true", "false"}

\* meson was configured with jpeg from libjpeg, jasper and introspection on.
C10_Witness ==
    /\ recipe = GDK /\ DOMAIN defs # {}
    /\ defs["jpeg"] = "true" /\ Requires("libjpeg")
    /\ "jasper" \in DOMAIN defs /\ defs["jasper"] = "true" /\ Requires("jasper")
    /\ defs["introspection"] = "enabled"

====
